---- MODULE Spec2Model ----
(***************************************************************************)
(* Model of the logical-flow tree builder (parsers/code_parser.py), the    *)
(* node model (tree/nodes.py) and the graph linearizer                     *)
(* (tree/graph_builder.py).                                                *)
(*                                                                         *)
(* A flow node is a record carrying its identity (id, Python's id(node)),  *)
(* its variant (kind), its key (a sequence of label strings: the parts the *)
(* code joins with commas), its position and its child slots:              *)
(*   children      Loop / With body, and the Try node's '_try' slot        *)
(*   dict          Branch children (OrderedDict), the Try '_except' slot   *)
(*   else_body     the Try node's '_else' slot                             *)
(*   finally_body  the Try node's '_finally' slot                          *)
(***************************************************************************)
EXTENDS Integers, Sequences, FiniteSets, TLC

\* Number of parse calls made on the one CodeFlowParser instance.
MaxParses == 2

\* getattr(node, 'lineno', '?') on a node without a position (ast.Module).
Unknown == -1

Last(s) == s[Len(s)]

Front(s) == SubSeq(s, 1, Len(s) - 1)

(***************************************************************************)
(* The front-end's statements (the result of ast.parse).                   *)
(***************************************************************************)
Stmt(k, txt, l, c, body, orelse, handlers, finalbody) ==
    [k |-> k, txt |-> txt, lineno |-> l, col_offset |-> c, body |-> body,
     orelse |-> orelse, handlers |-> handlers, finalbody |-> finalbody,
     bad |-> FALSE]

Expr(txt, l, c) == Stmt("Expr", txt, l, c, <<>>, <<>>, <<>>, <<>>)

\* A statement whose stringification (ast.unparse, a collaborator) raises.
BadExpr(l, c) == [Expr("?", l, c) EXCEPT !.bad = TRUE]

PassS(l, c) == Stmt("Pass", "pass", l, c, <<>>, <<>>, <<>>, <<>>)

FunctionDef(l, c) == Stmt("FunctionDef", "def", l, c, <<>>, <<>>, <<>>, <<>>)

Import(l, c) == Stmt("Import", "import", l, c, <<>>, <<>>, <<>>, <<>>)

While(test, l, c, body) == Stmt("While", test, l, c, body, <<>>, <<>>, <<>>)

For(header, l, c, body) == Stmt("For", header, l, c, body, <<>>, <<>>, <<>>)

If(test, l, c, body, orelse) == Stmt("If", test, l, c, body, orelse, <<>>, <<>>)

With(items, l, c, body) == Stmt("With", items, l, c, body, <<>>, <<>>, <<>>)

Try(l, c, body, handlers, orelse, finalbody) ==
    Stmt("Try", "try", l, c, body, orelse, handlers, finalbody)

\* ast.ExceptHandler: type is "none" (bare except), "single" or "tuple".
Handler(type, elts, name, body) ==
    [type |-> type, elts |-> elts, name |-> name, body |-> body]

Module(body) == Stmt("Module", "", Unknown, Unknown, body, <<>>, <<>>, <<>>)

(***************************************************************************)
(* tree/nodes.py                                                           *)
(***************************************************************************)
LogicalNode(id, kind, key, l, c) ==
    [id |-> id, kind |-> kind, key |-> key, lineno |-> l, col_offset |-> c,
     children |-> <<>>, dict |-> <<>>, else_body |-> <<>>,
     finally_body |-> <<>>]

\* The value None where a node is expected.
NoNode == LogicalNode(0, "None", <<>>, 0, 0)

InstructionNode(id, instruction, l, c) ==
    LogicalNode(id, "Instruction", <<instruction>>, l, c)

LoopNode(id, condition, l, c) == LogicalNode(id, "Loop", <<condition>>, l, c)

BranchNode(id, l, c) == LogicalNode(id, "Branch", <<>>, l, c)

TryNode(id, l, c) == LogicalNode(id, "Try", <<>>, l, c)

WithNode(id, context_expr, l, c) ==
    LogicalNode(id, "With", <<context_expr>>, l, c)

DictKeys(d) == [i \in 1..Len(d) |-> d[i].k]

\* OrderedDict.__setitem__: an existing key keeps its place and takes the
\* new value, a new key goes last.
DictSet(d, k, v) ==
    IF \E i \in 1..Len(d) : d[i].k = k
    THEN [i \in 1..Len(d) |-> IF d[i].k = k THEN [k |-> k, v |-> v] ELSE d[i]]
    ELSE Append(d, [k |-> k, v |-> v])

add_children(node, nodes) == [node EXCEPT !.children = @ \o nodes]

add_branch(node, condition, nodes) ==
    [node EXCEPT !.dict = DictSet(@, condition, nodes),
                 !.key = IF Len(@) > 0 THEN Append(@, condition)
                         ELSE <<condition>>]

_update_key(node) ==
    [node EXCEPT !.key =
        <<"try">> \o DictKeys(node.dict)
        \o (IF Len(node.else_body) > 0 THEN <<"else">> ELSE <<>>)
        \o (IF Len(node.finally_body) > 0 THEN <<"finally">> ELSE <<>>)]

add_except(node, exception, nodes) ==
    _update_key([node EXCEPT !.dict = DictSet(@, exception, nodes)])

add_nodes(node, category, nodes) ==
    CASE category = "try" -> [node EXCEPT !.children = @ \o nodes]
      [] category = "else" -> [node EXCEPT !.else_body = @ \o nodes]
      [] category = "finally" -> [node EXCEPT !.finally_body = @ \o nodes]

(***************************************************************************)
(* parsers/code_parser.py.  The parser's state while one parse call runs:  *)
(* scopes (self.scopes), nid (the identities handed out so far),           *)
(* last_node (self.last_node), raised and msg (the exception in flight:    *)
(* msg lists the positions of its 'Error at line .., col ..: ' prefixes,   *)
(* outermost first).                                                       *)
(***************************************************************************)
Scope(level) == [level |-> level, nodes |-> <<>>]

Pos(node) == [lineno |-> node.lineno, col_offset |-> node.col_offset]

_add_node_to_scope(st, node) ==
    [st EXCEPT !.scopes[Len(st.scopes)].nodes = Append(@, node)]

PushScope(st) ==
    [st EXCEPT !.scopes = Append(@, Scope(Last(st.scopes).level + 1))]

PopScope(st) == [st EXCEPT !.scopes = Front(@)]

\* A method call on a node object that is the last element of the current
\* scope's list: the list sees the node as changed.
Mutate(st, node) ==
    [st EXCEPT !.scopes[Len(st.scopes)].nodes[Len(st.scopes[Len(st.scopes)].nodes)] = node]

NewId(st) == [st EXCEPT !.nid = @ + 1]

Raise(st) == [st EXCEPT !.raised = TRUE, !.msg = <<>>]

_get_exception_str(exc, alias) ==
    IF alias # "" THEN exc \o " as " \o alias ELSE exc

exception_list(handler) ==
    IF handler.type = "none" THEN <<"all">>
    ELSE [i \in 1..Len(handler.elts) |->
             _get_exception_str(handler.elts[i], handler.name)]

RECURSIVE AddExcepts(_, _, _, _)
AddExcepts(node, excs, i, nodes) ==
    IF i > Len(excs) THEN node
    ELSE AddExcepts(add_except(node, excs[i], nodes), excs, i + 1, nodes)

\* The node whose body the current scope collects: the last element of the
\* scope below, appended there before the scope was pushed.
Owner(st) == Last(st.scopes[Len(st.scopes) - 1].nodes)

\* scope = self.scopes.pop() after a body was visited, then the call that
\* hands scope.nodes to the owning node; an exception in the body skips both.
LoopCollect(st) ==
    IF st.raised THEN st
    ELSE Mutate(PopScope(st), add_children(Owner(st), Last(st.scopes).nodes))

BranchCollect(condition, st) ==
    IF st.raised THEN st
    ELSE Mutate(PopScope(st),
                add_branch(Owner(st), condition, Last(st.scopes).nodes))

TryCollect(category, st) ==
    IF st.raised THEN st
    ELSE Mutate(PopScope(st),
                add_nodes(Owner(st), category, Last(st.scopes).nodes))

ExceptCollect(handler, st) ==
    IF st.raised THEN st
    ELSE Mutate(PopScope(st),
                AddExcepts(Owner(st), exception_list(handler), 1,
                           Last(st.scopes).nodes))

\* visit_With does not add with_node to a scope: it ends up in last_node.
WithCollect(with_node, st) ==
    IF st.raised THEN st
    ELSE [PopScope(st) EXCEPT
             !.last_node = add_children(with_node, Last(st.scopes).nodes)]

\* except Exception as e: raise Exception(f"Error at line ..., col ...: {e}")
Wrap(node, st) ==
    IF st.raised THEN [st EXCEPT !.msg = <<Pos(node)>> \o @] ELSE st

RECURSIVE visit(_, _)
RECURSIVE generic_visit(_, _, _)
RECURSIVE IfChain(_, _)
RECURSIVE Handlers(_, _, _)

\* generic_visit(node, field) over the statement list of that field.
generic_visit(items, i, st) ==
    IF i > Len(items) \/ st.raised THEN st
    ELSE generic_visit(items, i + 1, visit(items[i], st))

visit_Instruction(node, st) ==
    IF node.bad THEN Raise(st)
    ELSE _add_node_to_scope(NewId(st),
            InstructionNode(st.nid + 1, node.txt, node.lineno, node.col_offset))

visit_Loop(node, st) ==
    LoopCollect(generic_visit(node.body, 1,
        PushScope(_add_node_to_scope(NewId(st),
            LoopNode(st.nid + 1, node.txt, node.lineno, node.col_offset)))))

\* The while loop of visit_If over node.orelse.
IfChain(node, st) ==
    IF st.raised \/ node.orelse = <<>> THEN st
    ELSE IF Len(node.orelse) = 1 /\ node.orelse[1].k = "If"
    THEN IfChain(node.orelse[1],
                 BranchCollect(node.orelse[1].txt,
                     generic_visit(node.orelse[1].body, 1, PushScope(st))))
    ELSE BranchCollect("else", generic_visit(node.orelse, 1, PushScope(st)))

visit_If(node, st) ==
    IfChain(node,
        BranchCollect(node.txt,
            generic_visit(node.body, 1,
                PushScope(_add_node_to_scope(NewId(st),
                    BranchNode(st.nid + 1, node.lineno, node.col_offset))))))

\* The handler loop of visit_Try.
Handlers(handlers, i, st) ==
    IF st.raised \/ i > Len(handlers) THEN st
    ELSE Handlers(handlers, i + 1,
             ExceptCollect(handlers[i],
                 generic_visit(handlers[i].body, 1, PushScope(st))))

TryElse(node, st) ==
    IF st.raised \/ node.orelse = <<>> THEN st
    ELSE TryCollect("else", generic_visit(node.orelse, 1, PushScope(st)))

TryFinally(node, st) ==
    IF st.raised \/ node.finalbody = <<>> THEN st
    ELSE TryCollect("finally", generic_visit(node.finalbody, 1, PushScope(st)))

visit_Try(node, st) ==
    TryFinally(node,
        TryElse(node,
            Handlers(node.handlers, 1,
                TryCollect("try",
                    generic_visit(node.body, 1,
                        PushScope(_add_node_to_scope(NewId(st),
                            TryNode(st.nid + 1, node.lineno, node.col_offset))))))))

visit_With(node, st) ==
    WithCollect(WithNode(st.nid + 1, node.txt, node.lineno, node.col_offset),
                generic_visit(node.body, 1, PushScope(NewId(st))))

visit_Module(node, st) == generic_visit(node.body, 1, st)

\* ast.NodeVisitor.visit: the visit_<class> method, or generic_visit(node)
\* for a class without one (a statement with no statements below it).
super_visit(node, st) ==
    CASE node.k = "Module" -> visit_Module(node, st)
      [] node.k \in {"Expr", "Pass"} -> visit_Instruction(node, st)
      [] node.k \in {"While", "For"} -> visit_Loop(node, st)
      [] node.k = "If" -> visit_If(node, st)
      [] node.k = "Try" -> visit_Try(node, st)
      [] node.k = "With" -> visit_With(node, st)
      [] node.k = "FunctionDef" -> st
      [] OTHER -> st

visit(node, st) == Wrap(node, super_visit(node, st))

(***************************************************************************)
(* tree/graph_builder.py.  The graph under construction: nodes (vertex     *)
(* ids), label (the label attribute of the vertices given one), edges,     *)
(* calls (the argument of every add_edges_for_node call, in order) and exc *)
(* (the exception that ended build_graph, "" for none).  Once exc is set   *)
(* nothing further is done: the exception propagates out of build_graph.   *)
(***************************************************************************)
EmptyGraph ==
    [nodes |-> {}, label |-> [x \in {} |-> 0], edges |-> {}, calls |-> <<>>,
     exc |-> ""]

\* f"{prefix}: {str(node)}", where str(node) is ClassName(key).
Label(prefix, node) == [prefix |-> prefix, kind |-> node.kind, key |-> node.key]

add_node(g, id, label) ==
    IF g.exc # "" THEN g
    ELSE [g EXCEPT !.nodes = @ \cup {id}, !.label = (id :> label) @@ @]

add_edge(g, u, v) ==
    IF g.exc # "" THEN g
    ELSE [g EXCEPT !.nodes = @ \cup {u, v}, !.edges = @ \cup {<<u, v>>}]

\* graph.add_edge(id(seq[-1]), v): seq[-1] of an empty list is an IndexError.
add_edge_from_last(g, seq, v) ==
    IF g.exc # "" THEN g
    ELSE IF seq = <<>> THEN [g EXCEPT !.exc = "IndexError"]
    ELSE add_edge(g, Last(seq).id, v)

\* What pydantic's BaseModel.__eq__ compares: the class and the field
\* values (key, lineno, col_offset, children), children by the same
\* equality; the identity is no part of it.
RECURSIVE Content(_)
ContentSeq(seq) == [i \in 1..Len(seq) |-> Content(seq[i])]

Content(n) ==
    [n EXCEPT !.id = 0,
              !.children = ContentSeq(n.children),
              !.dict = [i \in 1..Len(n.dict) |->
                           [k |-> n.dict[i].k, v |-> ContentSeq(n.dict[i].v)]],
              !.else_body = ContentSeq(n.else_body),
              !.finally_body = ContentSeq(n.finally_body)]

NodeEq(a, b) == a.id = b.id \/ Content(a) = Content(b)

\* list.index(x): the first position whose element is x or equals x
\* (1-based here); 0 stands for the ValueError of a missing element.
index(seq, x) ==
    IF \E i \in 1..Len(seq) : NodeEq(seq[i], x)
    THEN CHOOSE i \in 1..Len(seq) :
            NodeEq(seq[i], x) /\ \A j \in 1..(i - 1) : ~NodeEq(seq[j], x)
    ELSE 0

add_next_edge(node, parent_scope, parent_node, g) ==
    IF g.exc # "" \/ parent_scope = <<>> THEN g
    ELSE LET node_index == IF parent_node = NoNode
                           THEN index(parent_scope, node)
                           ELSE index(parent_scope, parent_node)
         IN  IF node_index = 0 THEN [g EXCEPT !.exc = "ValueError"]
             ELSE IF node_index + 1 <= Len(parent_scope)
             THEN add_edge(g, node.id, parent_scope[node_index + 1].id)
             ELSE g

RECURSIVE add_edges_for_node(_, _, _)
RECURSIVE Chain(_, _, _, _)
RECURSIVE BranchLoop(_, _, _, _)
RECURSIVE ExceptLoop(_, _, _)
RECURSIVE ExceptToFinally(_, _, _, _)

\* for i, child in enumerate(seq): add the vertex with its label, chain it
\* to its predecessor, recurse.
Chain(seq, i, prefix, g) ==
    IF i > Len(seq) \/ g.exc # "" THEN g
    ELSE LET g1 == add_node(g, seq[i].id, Label(prefix, seq[i]))
             g2 == IF i > 1 THEN add_edge(g1, seq[i - 1].id, seq[i].id) ELSE g1
         IN  Chain(seq, i + 1, prefix, add_edges_for_node(seq[i], seq, g2))

BranchLoop(node, j, parent_scope, g) ==
    IF j > Len(node.dict) \/ g.exc # "" THEN g
    ELSE LET children == node.dict[j].v
             g1 == Chain(children, 1, node.dict[j].k, g)
             g2 == IF children # <<>>
                   THEN add_next_edge(Last(children), parent_scope, node, g1)
                   ELSE g1
         IN  BranchLoop(node, j + 1, parent_scope, g2)

ExceptLoop(exceptions, j, g) ==
    IF j > Len(exceptions) \/ g.exc # "" THEN g
    ELSE ExceptLoop(exceptions, j + 1,
            Chain(exceptions[j].v, 1, "except " \o exceptions[j].k, g))

ExceptToFinally(exceptions, j, finally_body, g) ==
    IF j > Len(exceptions) \/ g.exc # "" THEN g
    ELSE ExceptToFinally(exceptions, j + 1, finally_body,
            add_edge_from_last(g, exceptions[j].v, finally_body[1].id))

LoopEdges(node, parent_scope, g) ==
    LET g1 == Chain(node.children, 1, "", g)
    IN  IF node.children # <<>>
        THEN add_next_edge(Last(node.children), parent_scope, node, g1)
        ELSE g1

\* TryEdges with the exits of a Try node without finally linked onward: the
\* last try node gets the edge to the Try node's successor.
TryEdgesLinkingExit(node, parent_scope, g) ==
    LET body == node.children
        exceptions == node.dict
        else_body == node.else_body
        finally_body == node.finally_body
        g1 == Chain(body, 1, "", g)
        g2 == IF else_body # <<>>
              THEN add_edge_from_last(Chain(else_body, 1, "", g1), body,
                                      else_body[1].id)
              ELSE g1
        g3 == ExceptLoop(exceptions, 1, g2)
        g4 == add_next_edge(Last(finally_body), parent_scope, node,
                            Chain(finally_body, 1, "finally", g3))
        g5 == IF else_body # <<>>
              THEN add_edge(g4, Last(else_body).id, finally_body[1].id)
              ELSE add_edge_from_last(g4, body, finally_body[1].id)
    IN  IF finally_body # <<>>
        THEN ExceptToFinally(exceptions, 1, finally_body, g5)
        ELSE IF body # <<>>
        THEN add_next_edge(Last(body), parent_scope, node, g3)
        ELSE g3

TryEdges(node, parent_scope, g) ==
    LET body == node.children
        exceptions == node.dict
        else_body == node.else_body
        finally_body == node.finally_body
        g1 == Chain(body, 1, "", g)
        g2 == IF else_body # <<>>
              THEN add_edge_from_last(Chain(else_body, 1, "", g1), body,
                                      else_body[1].id)
              ELSE g1
        g3 == ExceptLoop(exceptions, 1, g2)
        g4 == add_next_edge(Last(finally_body), parent_scope, node,
                            Chain(finally_body, 1, "finally", g3))
        g5 == IF else_body # <<>>
              THEN add_edge(g4, Last(else_body).id, finally_body[1].id)
              ELSE add_edge_from_last(g4, body, finally_body[1].id)
    IN  IF finally_body # <<>>
        THEN ExceptToFinally(exceptions, 1, finally_body, g5)
        ELSE g3

WithEdges(node, parent_scope, g) ==
    LET g1 == Chain(node.children, 1, "", g)
    IN  IF node.children # <<>>
        THEN add_next_edge(Last(node.children), parent_scope, NoNode, g1)
        ELSE g1

add_edges_for_node(node, parent_scope, g) ==
    LET g1 == add_node([g EXCEPT !.calls = Append(@, node.id)], node.id,
                       Label("", node))
    IN  IF g.exc # "" THEN g
        ELSE CASE node.kind = "Instruction" ->
                      add_next_edge(node, parent_scope, NoNode, g1)
               [] node.kind = "Loop" -> LoopEdges(node, parent_scope, g1)
               [] node.kind = "Branch" -> BranchLoop(node, 1, parent_scope, g1)
               [] node.kind = "Try" -> TryEdges(node, parent_scope, g1)
               [] node.kind = "With" -> WithEdges(node, parent_scope, g1)
               [] OTHER -> g1

RECURSIVE ProgramLoop(_, _, _)
ProgramLoop(children, i, g) ==
    IF i > Len(children) \/ g.exc # "" THEN g
    ELSE ProgramLoop(children, i + 1,
                     add_edges_for_node(children[i], children, g))

build_graph(children) == ProgramLoop(children, 1, EmptyGraph)

(***************************************************************************)
(* The inputs.  Statements at line 1, column 0, positioned as ast.parse    *)
(* positions them.  A source is one statement; the statements of Followed  *)
(* also come followed by the expression statement z() on a later line.     *)
(***************************************************************************)
a2 == Expr("a()", 2, 4)

b4 == Expr("b()", 4, 4)

c6 == Expr("c()", 6, 4)

Followed ==
    { Expr("x = 1", 1, 0),
      While("c", 1, 0, <<a2>>),
      For("i in r", 1, 0, <<If("p", 2, 4, <<Expr("a()", 3, 8)>>, <<>>)>>),
      If("p", 1, 0, <<a2>>, <<b4>>),
      If("p", 1, 0, <<a2>>, <<If("q", 3, 0, <<b4>>, <<c6>>)>>),
      Try(1, 0, <<a2>>, <<Handler("single", <<"E">>, "", <<b4>>)>>, <<>>, <<c6>>),
      Try(1, 0, <<a2>>, <<Handler("single", <<"E">>, "e", <<b4>>)>>, <<c6>>,
          <<Expr("d()", 8, 4)>>),
      Try(1, 0, <<a2>>, <<Handler("none", <<>>, "", <<b4>>)>>, <<c6>>, <<>>) }

Alone ==
    { FunctionDef(1, 0),
      BadExpr(1, 0),
      While("c", 1, 0, <<a2, Expr("b()", 3, 4)>>),
      While("c", 1, 0, <<BadExpr(2, 4)>>),
      If("p", 1, 0, <<a2>>, <<If("p", 3, 0, <<b4>>, <<>>)>>),
      If("p", 1, 0, <<While("c", 2, 4, <<BadExpr(3, 8)>>)>>, <<>>),
      If("p", 1, 0, <<Try(2, 4, <<Expr("a()", 3, 8)>>,
                          <<Handler("none", <<>>, "", <<PassS(5, 8)>>)>>,
                          <<>>, <<>>),
                      Expr("b()", 6, 4)>>, <<>>),
      Try(1, 0, <<a2>>, <<Handler("tuple", <<"A", "B">>, "", <<b4>>)>>, <<>>, <<>>),
      Try(1, 0, <<Import(2, 4)>>, <<Handler("single", <<"E">>, "", <<b4>>)>>,
          <<>>, <<c6>>),
      Try(1, 0, <<a2>>, <<Handler("single", <<"E">>, "", <<Import(4, 4)>>)>>,
          <<>>, <<c6>>),
      While("c", 1, 0, <<Try(2, 4, <<Expr("a()", 3, 8)>>, <<>>, <<>>,
                             <<Expr("b()", 5, 8)>>)>>),
      With("f", 1, 0, <<a2>>) }

Sources ==
    {<<s>> : s \in Followed \cup Alone}
    \cup {<<s, Expr("z()", 9, 0)>> : s \in Followed}

(***************************************************************************)
(* Trees a client builds with the node classes themselves, handed to       *)
(* build_graph as the children of a ProgramNode.  Each shape is a node at  *)
(* line 1 whose identities start at b.                                     *)
(***************************************************************************)
Shapes(b) ==
    LET a == InstructionNode(b + 1, "a()", 2, 4)
        a_ == InstructionNode(b + 2, "a()", 2, 4)
        c == InstructionNode(b + 2, "c()", 3, 4)
        w == add_children(WithNode(b + 1, "g", 2, 4),
                          <<InstructionNode(b + 2, "a()", 3, 8)>>)
    IN  { InstructionNode(b, "x = 1", 1, 0),
          add_children(WithNode(b, "f", 1, 0), <<>>),
          add_children(WithNode(b, "f", 1, 0), <<a>>),
          add_children(WithNode(b, "f", 1, 0), <<a, c>>),
          add_children(LoopNode(b, "c", 1, 0), <<a, a_>>),
          add_children(LoopNode(b, "c", 1, 0), <<w>>),
          add_branch(add_branch(BranchNode(b, 1, 0), "p", <<a>>), "else", <<c>>),
          add_nodes(add_nodes(TryNode(b, 1, 0), "try", <<a>>), "finally", <<c>>) }

Trees ==
    {<<x>> : x \in Shapes(100)}
    \cup {<<x, y>> : x \in Shapes(100), y \in Shapes(200)}

(***************************************************************************)
(* The state: one CodeFlowParser instance (scopes, last_node), the         *)
(* identities handed out, the parse calls made so far (inputs), the        *)
(* outcome of the last one, the Program objects returned, and the last     *)
(* build_graph call (its argument and its result).  client tells how the   *)
(* session gets its trees: from the parser, or by building them by hand.   *)
(***************************************************************************)
VARIABLES client, scopes, nextId, last_node, inputs, outcome, programs, graph

vars == <<client, scopes, nextId, last_node, inputs, outcome, programs, graph>>

\* CodeFlowParser.__init__
Init ==
    /\ client \in {"parser", "builder"}
    /\ scopes = <<Scope(1)>>
    /\ nextId = 0
    /\ last_node = NoNode
    /\ inputs = <<>>
    /\ outcome = [raised |-> FALSE, msg |-> <<>>]
    /\ programs = <<>>
    /\ graph = [built |-> FALSE, tree |-> <<>>, g |-> EmptyGraph]

\* The state self.visit(tree) leaves, tree being ast.parse(source_code).
Visited(source_code, sc, nid, ln) ==
    visit(Module(source_code),
          [scopes |-> sc, nid |-> nid, last_node |-> ln, raised |-> FALSE,
           msg |-> <<>>])

\* program_node.children = self.scopes[0].nodes: the Program holds the
\* root scope's list itself (children is the position of that scope in
\* self.scopes); call is the parse call that returned the Program and
\* returned a copy of the list as it was then.
ProgramNode(call, sc) ==
    [children |-> 1, call |-> call, returned |-> sc[1].nodes]

\* The children of a Program object as they are now.
Children(program) == scopes[program.children].nodes

\* CodeFlowParser.parse
Parse(source_code) ==
    /\ client = "parser"
    /\ Len(inputs) < MaxParses
    /\ LET r == Visited(source_code, scopes, nextId, last_node)
       IN  /\ scopes' = r.scopes
           /\ nextId' = r.nid
           /\ last_node' = r.last_node
           /\ outcome' = [raised |-> r.raised, msg |-> r.msg]
           /\ programs' = IF r.raised THEN programs
                          ELSE Append(programs, ProgramNode(Len(inputs) + 1, r.scopes))
    /\ inputs' = Append(inputs, source_code)
    /\ UNCHANGED <<client, graph>>

\* build_graph(program) on a Program the parser returned.
BuildGraph(i) ==
    /\ graph' = [built |-> TRUE, tree |-> Children(programs[i]),
                 g |-> build_graph(Children(programs[i]))]
    /\ UNCHANGED <<client, scopes, nextId, last_node, inputs, outcome, programs>>

\* build_graph(program) on a Program built by hand.
BuildGraphOf(tree) ==
    /\ client = "builder"
    /\ graph' = [built |-> TRUE, tree |-> tree, g |-> build_graph(tree)]
    /\ UNCHANGED <<client, scopes, nextId, last_node, inputs, outcome, programs>>

Next ==
    \/ \E source_code \in Sources : Parse(source_code)
    \/ \E i \in 1..Len(programs) : BuildGraph(i)
    \/ \E tree \in Trees : BuildGraphOf(tree)

Spec == Init /\ [][Next]_vars

(***************************************************************************)
(* Vocabulary of the properties.                                           *)
(***************************************************************************)
\* The child sequences of a node.
Slots(n) ==
    {n.children, n.else_body, n.finally_body}
    \cup {n.dict[j].v : j \in 1..Len(n.dict)}

\* Every occurrence of a node in a tree, with the sibling sequence it
\* occurs in and its position there.
RECURSIVE Occs(_)
Occs(seq) ==
    {[node |-> seq[i], scope |-> seq, at |-> i] : i \in 1..Len(seq)}
    \cup UNION {Occs(slot) : slot \in UNION {Slots(seq[i]) : i \in 1..Len(seq)}}

TreeIds(seq) == {o.node.id : o \in Occs(seq)}

\* The identity of the successor of an occurrence among its siblings.
Succ(o) == IF o.at < Len(o.scope) THEN {o.scope[o.at + 1].id} ELSE {}

\* The targets of the edges leaving a vertex.
Out(g, id) == {e[2] : e \in {d \in g.edges : d[1] = id}}

Returned == graph.built /\ graph.g.exc = ""

KindOccs(kind) == {o \in Occs(graph.tree) : o.node.kind = kind}

(***************************************************************************)
(* C1: build_graph calls add_edges_for_node exactly once on every node of  *)
(* the tree, and the vertex set is the set of the tree's node identities.  *)
(* Stated of the calls that return.                                        *)
(***************************************************************************)
C1_VisitedExactlyOnce ==
    Returned =>
        /\ graph.g.nodes = TreeIds(graph.tree)
        /\ \A id \in TreeIds(graph.tree) :
              Cardinality({k \in 1..Len(graph.g.calls) : graph.g.calls[k] = id}) = 1

(***************************************************************************)
(* C2: the last node of every non-empty branch body has exactly one        *)
(* outgoing edge, to the successor of its Branch node (none when the       *)
(* Branch is last in its sequence), and no edge leads from one body of a   *)
(* Branch into another.                                                    *)
(***************************************************************************)
C2_BranchRejoin ==
    Returned =>
        \A o \in KindOccs("Branch") :
            \A j \in 1..Len(o.node.dict) :
                /\ o.node.dict[j].v # <<>> =>
                      Out(graph.g, Last(o.node.dict[j].v).id) = Succ(o)
                /\ \A k \in 1..Len(o.node.dict) :
                      j # k =>
                          \A u \in TreeIds(o.node.dict[j].v) :
                              Out(graph.g, u) \cap TreeIds(o.node.dict[k].v) = {}

(***************************************************************************)
(* C3: for a Try node with a non-empty finally slot build_graph completes; *)
(* the first finally node has an edge from the last else node when there   *)
(* is an else body, otherwise from the last try node (never both), and     *)
(* from the last node of every handler body; the last finally node links   *)
(* to the Try node's successor.  Stated as: the call does not end in an    *)
(* IndexError, and when it returns the edges are those.                    *)
(***************************************************************************)
FinallyOccs == {o \in KindOccs("Try") : o.node.finally_body # <<>>}

FinallyEdges(o) ==
    LET n == o.node
        first == n.finally_body[1].id
    IN  /\ n.children # <<>>
        /\ IF n.else_body # <<>>
           THEN /\ first \in Out(graph.g, Last(n.else_body).id)
                /\ first \notin Out(graph.g, Last(n.children).id)
           ELSE first \in Out(graph.g, Last(n.children).id)
        /\ \A j \in 1..Len(n.dict) :
              /\ n.dict[j].v # <<>>
              /\ first \in Out(graph.g, Last(n.dict[j].v).id)
        /\ Succ(o) \subseteq Out(graph.g, Last(n.finally_body).id)

C3_TryFinally ==
    (graph.built /\ FinallyOccs # {}) =>
        /\ graph.g.exc # "IndexError"
        /\ graph.g.exc = "" => \A o \in FinallyOccs : FinallyEdges(o)

(***************************************************************************)
(* C4: for a Try node with an empty finally slot, no edge leads from the   *)
(* last node of its try body, of its else body or of a handler body to     *)
(* the Try node's successor among its siblings.                            *)
(***************************************************************************)
ExitNodes(n) ==
    {Last(slot).id : slot \in {t \in {n.children, n.else_body}
                                    \cup {n.dict[j].v : j \in 1..Len(n.dict)} :
                                  t # <<>>}}

C4_NoFinallyGap ==
    graph.built =>
        \A o \in KindOccs("Try") :
            o.node.finally_body = <<>> =>
                \A u \in ExitNodes(o.node) : Out(graph.g, u) \cap Succ(o) = {}

\* A graph was returned for a tree in which a Try node without finally,
\* with a try body, a handler body and an else body, has a successor.
C4_Witness ==
    /\ Returned
    /\ \E o \in KindOccs("Try") :
          /\ o.node.finally_body = <<>>
          /\ Succ(o) # {}
          /\ o.node.children # <<>>
          /\ o.node.else_body # <<>>
          /\ \E j \in 1..Len(o.node.dict) : o.node.dict[j].v # <<>>

(***************************************************************************)
(* C5: for a Loop node with a non-empty body, the last body node has an    *)
(* edge to the Loop node's successor when there is one, consecutive body   *)
(* nodes are chained, no body node has an edge to the Loop node and the    *)
(* last body node has no edge to a node of the same body.                  *)
(***************************************************************************)
C5_LoopExit ==
    Returned =>
        \A o \in KindOccs("Loop") :
            LET body == o.node.children
            IN  body # <<>> =>
                   /\ Succ(o) \subseteq Out(graph.g, Last(body).id)
                   /\ \A i \in 1..(Len(body) - 1) :
                         body[i + 1].id \in Out(graph.g, body[i].id)
                   /\ \A i \in 1..Len(body) :
                         o.node.id \notin Out(graph.g, body[i].id)
                   /\ \A i \in 1..Len(body) :
                         body[i].id \notin Out(graph.g, Last(body).id)

(***************************************************************************)
(* C6: the error a parse call raises carries exactly one                   *)
(* 'Error at line ..., col ...' prefix.                                    *)
(***************************************************************************)
C6_WrappedOnce == outcome.raised => Len(outcome.msg) = 1

(***************************************************************************)
(* C7: the Program a parse call returns holds exactly the nodes a fresh    *)
(* parser builds from the same input.                                      *)
(***************************************************************************)
FreshParse(source_code) ==
    Visited(source_code, <<Scope(1)>>, 0, NoNode).scopes[1].nodes

C7_PureFunctionOfInput ==
    \A i \in 1..Len(programs) :
        ContentSeq(programs[i].returned)
            = ContentSeq(FreshParse(inputs[programs[i].call]))

(***************************************************************************)
(* C8: the children of a returned Program stay what they were when parse   *)
(* returned it.                                                            *)
(***************************************************************************)
C8_ProgramImmutable ==
    \A i \in 1..Len(programs) : Children(programs[i]) = programs[i].returned

(***************************************************************************)
(* C9: every compound statement has its own node in the enclosing scope,   *)
(* at the statement's place among its siblings.  Stated of the top-level   *)
(* scope after one parse call that returned: the Program's children are    *)
(* the nodes of the input's statements that make a node, in order.         *)
(***************************************************************************)
MakesNode(stmt) == stmt.k \notin {"FunctionDef", "Import"}

NodeKind(stmt) ==
    CASE stmt.k \in {"While", "For"} -> "Loop"
      [] stmt.k = "If" -> "Branch"
      [] stmt.k = "Try" -> "Try"
      [] stmt.k = "With" -> "With"
      [] OTHER -> "Instruction"

Placed(seq) == [i \in 1..Len(seq) |-> <<NodeKind(seq[i]), seq[i].lineno>>]

C9_CompoundNodeInScope ==
    (Len(inputs) = 1 /\ ~outcome.raised) =>
        [i \in 1..Len(scopes[1].nodes) |->
            <<scopes[1].nodes[i].kind, scopes[1].nodes[i].lineno>>]
          = Placed(SelectSeq(inputs[1], MakesNode))

(***************************************************************************)
(* C10: for a With node with a non-empty body build_graph completes,       *)
(* chains the body nodes in order and links the last body node to the      *)
(* With node's successor when there is one.                                *)
(***************************************************************************)
WithOccs == {o \in KindOccs("With") : o.node.children # <<>>}

C10_ContextBlock ==
    (graph.built /\ WithOccs # {}) =>
        /\ graph.g.exc = ""
        /\ \A o \in WithOccs :
              /\ \A i \in 1..(Len(o.node.children) - 1) :
                    o.node.children[i + 1].id
                        \in Out(graph.g, o.node.children[i].id)
              /\ Succ(o) \subseteq Out(graph.g, Last(o.node.children).id)

(***************************************************************************)
(* C11: the Branch node of an if/elif/else chain has one children entry    *)
(* per declared branch, in declaration order, each holding the nodes of    *)
(* that branch's own body, and its key has as many labels as there are     *)
(* entries.  Stated of the tree after one parse call that returned, every  *)
(* Branch node matched with the if statement at its position.              *)
(***************************************************************************)
\* Every statement of a statement list, at any depth.
RECURSIVE Stmts(_)
Stmts(seq) ==
    UNION {{seq[i]} \cup Stmts(seq[i].body) \cup Stmts(seq[i].orelse)
           \cup Stmts(seq[i].finalbody)
           \cup UNION {Stmts(seq[i].handlers[j].body) :
                          j \in 1..Len(seq[i].handlers)} :
           i \in 1..Len(seq)}

\* The branches an if statement declares: the if, each elif, the else.
RECURSIVE Branches(_)
Branches(stmt) ==
    <<[k |-> stmt.txt, body |-> stmt.body]>>
    \o (IF stmt.orelse = <<>> THEN <<>>
        ELSE IF Len(stmt.orelse) = 1 /\ stmt.orelse[1].k = "If"
        THEN Branches(stmt.orelse[1])
        ELSE <<[k |-> "else", body |-> stmt.orelse]>>)

PlacedNodes(nodes) ==
    [i \in 1..Len(nodes) |-> <<nodes[i].kind, nodes[i].lineno>>]

IfAt(node) ==
    {s \in Stmts(inputs[1]) :
        s.k = "If" /\ s.lineno = node.lineno /\ s.col_offset = node.col_offset}

BranchBuiltFor(node, declared) ==
    /\ DictKeys(node.dict) = [i \in 1..Len(declared) |-> declared[i].k]
    /\ \A i \in 1..Len(declared) :
          PlacedNodes(node.dict[i].v)
              = Placed(SelectSeq(declared[i].body, MakesNode))
    /\ Len(node.key) = Len(node.dict)

C11_BranchEntries ==
    (Len(inputs) = 1 /\ ~outcome.raised) =>
        \A o \in {x \in Occs(scopes[1].nodes) : x.node.kind = "Branch"} :
            \A s \in IfAt(o.node) : BranchBuiltFor(o.node, Branches(s))

(***************************************************************************)
(* C12: every Try node of a tree the parser returned has a non-empty try   *)
(* slot.                                                                   *)
(***************************************************************************)
C12_TrySlotNonEmpty ==
    \A i \in 1..Len(programs) :
        \A o \in Occs(programs[i].returned) :
            o.node.kind = "Try" => o.node.children # <<>>

(***************************************************************************)
(* C13: in a tree the parser returned every node is held by exactly one    *)
(* child sequence, once: walking the tree slot by slot meets every node    *)
(* identity exactly once.                                                  *)
(***************************************************************************)
\* The child slots of a node in source order: the body (try body), the
\* keyed bodies (branches, handlers), the else body, the finally body.
SlotSeq(n) ==
    <<n.children>> \o [j \in 1..Len(n.dict) |-> n.dict[j].v]
    \o <<n.else_body, n.finally_body>>

\* The identities met by a pre-order walk of a sibling sequence.
RECURSIVE Pre(_)
RECURSIVE PreSlots(_)
Pre(seq) ==
    IF seq = <<>> THEN <<>>
    ELSE <<seq[1].id>> \o PreSlots(SlotSeq(seq[1])) \o Pre(Tail(seq))

PreSlots(slots) ==
    IF slots = <<>> THEN <<>> ELSE Pre(slots[1]) \o PreSlots(Tail(slots))

Times(walk, id) == Cardinality({k \in 1..Len(walk) : walk[k] = id})

C13_TreeOwnership ==
    \A i \in 1..Len(programs) :
        \A id \in TreeIds(programs[i].returned) :
            Times(Pre(programs[i].returned), id) = 1

(***************************************************************************)
(* C14: in the returned graph every direct child of a branch body carries  *)
(* the label prefixed with the condition of its branch.                    *)
(***************************************************************************)
C14_BranchChildLabel ==
    Returned =>
        \A o \in KindOccs("Branch") :
            \A j \in 1..Len(o.node.dict) :
                \A i \in 1..Len(o.node.dict[j].v) :
                    graph.g.label[o.node.dict[j].v[i].id].prefix
                        = o.node.dict[j].k

(***************************************************************************)
(* C15: the successor edge of a node is computed from the node's own       *)
(* position among its siblings, by identity.  Stated of the Instruction    *)
(* nodes that have a next sibling or are children of the Program: their    *)
(* outgoing edges are exactly the edge to the next sibling, none for the   *)
(* last one.                                                               *)
(***************************************************************************)
C15_SuccessorByIdentity ==
    Returned =>
        \A o \in KindOccs("Instruction") :
            (o.at < Len(o.scope) \/ o.scope = graph.tree) =>
                Out(graph.g, o.node.id) = Succ(o)

(***************************************************************************)
(* C16: every scope pushed for a body is popped when the body's processing *)
(* ends, normally or by an error: between parse calls the stack holds only *)
(* the root scope.                                                         *)
(***************************************************************************)
C16_ScopeStackDiscipline == Len(scopes) = 1

(***************************************************************************)
(* C17: every edge of the returned graph goes from a node to a node that   *)
(* comes strictly later in the tree's pre-order; there is no self-loop.    *)
(***************************************************************************)
Before(walk, u, v) ==
    \E i \in 1..Len(walk) :
        \E j \in (i + 1)..Len(walk) : walk[i] = u /\ walk[j] = v

C17_Acyclic ==
    Returned =>
        \A e \in graph.g.edges :
            e[1] # e[2] /\ Before(Pre(graph.tree), e[1], e[2])

====
